---- MODULE Spec2Model ----
(***************************************************************************)
(* Model of src/player.py: the Timer stopwatch, the Player state machine   *)
(* and the threads they start (Timer.__run, Player.__render,               *)
(* Player.__audiorender_thread), driven by one controlling caller.         *)
(*                                                                         *)
(* Time is counted in whole seconds; fps is counted in halves of a frame   *)
(* per second (fps 1.0 is MinFps = 2), so that int(fps * time) rounds.     *)
(* time.time() is the variable now; it advances in the steps that read it. *)
(* Threads are kept in pools (sequences); a thread that has ended keeps    *)
(* its slot with pc "done" or "crashed", which is what isAlive() reads.    *)
(* The playback driver of src/test.py (videoPlayer) is the caller of the   *)
(* specification SpecDriver; seen is a history variable, kept only in the  *)
(* specifications that observe what the two render threads hand over.      *)
(***************************************************************************)
EXTENDS Integers, Sequences, FiniteSets, TLC

\* ---- bounds of the model
MaxTime == 2
MaxPlays == 1
MaxPauses == 2
MaxLoads == 1
MaxReplays == 2
MaxStarts == 2

\* ---- status constants (player.py 31-40)
UNINITIALIZED == 0
READY == 1
PAUSED == 2
PLAYING == 3
EOS == 4
RUNNING == 5
STOPPED == 6

\* fps 1.0 in halves of a frame per second; max_duration 1.0 in seconds
MinFps == 2
MinDuration == 1

None == 0 - 1

VARIABLES
    now,                    \* time.time()
    clock,                  \* the Player's Timer object
    status, clip, loaded_file, audioformat, duration, fps,
    last_frame_no, current_time, next_audio_refresh_t,
    events,                 \* every threading.Event created so far (its flag)
    new_audioframe_available, \* index into events, 0: attribute not set
    renderloop, audioframe_handler,   \* index into video / audio, 0: not set
    current_videoframe, current_audioframe,
    timers, video, audio,   \* thread pools
    call,                   \* position of the controlling caller
    last,                   \* the caller's latest call: what it found, its outcome
    left,                   \* state-changing calls the caller may still make
    audio_out,              \* the playback driver's audio sink (test.py 150-154)
    seen                    \* history: signals set at 346, buffers handed at 396

clockvars == <<clock, timers>>
srcvars == <<clip, loaded_file, audioformat, duration, fps>>
syncvars == <<last_frame_no, current_time, next_audio_refresh_t>>
evvars == <<events, new_audioframe_available>>
handles == <<renderloop, audioframe_handler>>
framevars == <<current_videoframe, current_audioframe>>
callvars == <<call, last, left>>
obsvars == <<audio_out, seen>>
vars == <<now, clock, status, clip, loaded_file, audioformat, duration, fps,
          last_frame_no, current_time, next_audio_refresh_t, events,
          new_audioframe_available, renderloop, audioframe_handler,
          current_videoframe, current_audioframe, timers, video, audio,
          call, last, left, audio_out, seen>>

\* ---- the file system and the decoding library (external collaborators)
NoClip == [file |-> "none", audio |-> FALSE, duration |-> None, fps |-> None]

\* what VideoFileClip reads from each existing file
Files == [ av    |-> [audio |-> TRUE,  duration |-> MinDuration, fps |-> MinFps],
           mute  |-> [audio |-> FALSE, duration |-> MinDuration, fps |-> MinFps],
           short |-> [audio |-> TRUE,  duration |-> 0,           fps |-> MinFps],
           long  |-> [audio |-> TRUE,  duration |-> MaxTime,     fps |-> MinFps] ]

Paths == {"av", "mute", "short", "missing"}

isfile(path) == path \in DOMAIN Files

VideoFileClip(path, play_audio) ==
    [file |-> path, audio |-> Files[path].audio /\ play_audio,
     duration |-> Files[path].duration, fps |-> Files[path].fps]

\* ---- helpers
RECURSIVE Sum(_)
Sum(s) == IF s = <<>> THEN 0 ELSE Head(s) + Sum(Tail(s))

Alive(pool, i) == i # 0 /\ pool[i].pc \notin {"done", "crashed"}
Live(pool) == {i \in DOMAIN pool : Alive(pool, i)}
InPlay(s) == s \in {PLAYING, PAUSED}

\* Python's int() of the quotient num / den: truncation towards zero
int_Ceiling(num, den) == (num + den - 1) \div den
int(num, den) == IF num >= 0 THEN num \div den ELSE 0 - ((0 - num) \div den)

\* ---- Timer (player.py 42-164)
TimerInit == [status |-> PAUSED, max_duration |-> None, fps |-> None,
              previous_intervals |-> <<>>, current_interval_duration |-> 0,
              interval_start |-> None, thread |-> 0]

TimerReset(c) == [c EXCEPT !.previous_intervals = <<>>,
                           !.current_interval_duration = 0]

TimerStop(c) == TimerReset([c EXCEPT !.status = STOPPED])

TimerTime(c) == Sum(c.previous_intervals) + c.current_interval_duration

fpsUnset(c) == c.fps = None \/ c.fps = 0

\* int(fps * time), fps in halves
TimerCurrentFrame(c) == int(c.fps * TimerTime(c), MinFps)

\* 1.0 / fps
TimerFrameInterval(c) == MinFps \div c.fps

\* the validating setters: TRUE when the value is accepted
fpsAccepted_Above(value) == value = None \/ value > MinFps
fpsAccepted(value) == value = None \/ value >= MinFps
maxDurationAccepted(value) == value = None \/ value >= MinDuration

\* what a load_video call can write, as the caller finds it on entry
Snapshot ==
    [clip |-> clip, loaded_file |-> loaded_file, audioformat |-> audioformat,
     duration |-> duration, fps |-> fps,
     clock_fps |-> clock.fps, clock_max_duration |-> clock.max_duration]
NoSnapshot ==
    [clip |-> NoClip, loaded_file |-> "none", audioformat |-> "unset",
     duration |-> None, fps |-> None,
     clock_fps |-> None, clock_max_duration |-> None]
Found(op) == IF op = "load_video" THEN Snapshot ELSE NoSnapshot

\* no window pulled yet
NoWindow == <<None, None>>

\* the history of one observed session: how often line 346 has set the
\* new-frame signal, how many buffers line 396 has handed to the callback,
\* the clock time the latest video frame was pulled for (365) and the window
\* the audio thread pulled last (376-386), and whether the signal was raised
\* by the final set() of line 357 ("set") and that set() has woken the audio
\* thread ("woken"), and the current_time of the frame produced before the
\* latest one (343); Unseen where no history is kept
Unseen == [signals |-> None, buffers |-> None, pulled |-> None,
           window |-> NoWindow, final |-> "no", earlier |-> None]
NoneSeen == [signals |-> 0, buffers |-> 0, pulled |-> None,
             window |-> NoWindow, final |-> "no", earlier |-> None]
Produced(s, t) == IF s = Unseen THEN s ELSE [s EXCEPT !.earlier = t]
Signalled(s) == IF s = Unseen THEN s ELSE [s EXCEPT !.signals = @ + 1]
Handed(s) ==
    IF s = Unseen THEN s ELSE [s EXCEPT !.buffers = @ + 1, !.final = "no"]
Finally(s, raised) ==
    IF s = Unseen \/ ~raised THEN s ELSE [s EXCEPT !.final = "set"]
Cleared(s) ==
    IF s = Unseen \/ s.final # "set" THEN s ELSE [s EXCEPT !.final = "woken"]
Skipped(s) == IF s = Unseen THEN s ELSE [s EXCEPT !.final = "no"]
Pulled(s, t) == IF s = Unseen THEN s ELSE [s EXCEPT !.pulled = t]
Fetched(s, w) == IF s = Unseen THEN s ELSE [s EXCEPT !.window = w]

\* ---- construction: Player.__init__ (player.py 171-206), Player.reset (233-241)
Loaded(path, play_audio) ==
    LET c == VideoFileClip(path, play_audio) IN
    /\ clip = c
    /\ audioformat = IF play_audio /\ c.audio THEN "set" ELSE "None"
    /\ loaded_file = path
    /\ duration = c.duration
    /\ fps = c.fps
    /\ clock = [TimerInit EXCEPT !.max_duration = c.duration, !.fps = c.fps]
    /\ status = READY

PlayerReset ==
    /\ clip = NoClip
    /\ audioformat = "unset"
    /\ loaded_file = "none"
    /\ duration = None
    /\ fps = None
    /\ clock = TimerInit
    /\ status = UNINITIALIZED

Constructed(videofiles) ==
    /\ now = 0
    /\ \E videofile \in videofiles :
         IF videofile = "None" THEN PlayerReset ELSE Loaded(videofile, TRUE)
    /\ last_frame_no = None /\ current_time = None /\ next_audio_refresh_t = None
    /\ events = <<>> /\ new_audioframe_available = 0
    /\ renderloop = 0 /\ audioframe_handler = 0
    /\ current_videoframe = "None" /\ current_audioframe = "None"
    /\ timers = <<>> /\ video = <<>> /\ audio = <<>>
    /\ call = "idle"
    /\ last = [op |-> "none", arg |-> "", status |-> None, result |-> "none",
               before |-> NoSnapshot]

\* a constructed Player and the calls its caller will make
Init ==
    /\ Constructed({"None", "av", "mute"})
    /\ audio_out = "none" /\ seen = Unseen
    /\ left = [play |-> MaxPlays, pause |-> MaxPauses, load |-> 0]

\* the caller enters a call (what it finds is recorded), moves on in it, and
\* returns from it with a result: "ok", the diagnostic printed, or the error raised
Enter(op, arg, pc) ==
    /\ call' = pc
    /\ last' = [op |-> op, arg |-> arg, status |-> status, result |-> "running",
                before |-> Found(op)]
Leave(op, arg, r) ==
    /\ call' = "idle"
    /\ last' = [op |-> op, arg |-> arg, status |-> status, result |-> r,
                before |-> Found(op)]
Goto(pc) == call' = pc /\ last' = last
Return(r) == call' = "idle" /\ last' = [last EXCEPT !.result = r]

\* ---- Timer.__run (player.py 81-93), one step per shared access
\* a thread that has ended: its frame is gone
Done(pool, i) == [pool EXCEPT ![i] = [pc |-> "done"]]
Crashed(pool, i) == [pool EXCEPT ![i] = [pc |-> "crashed"]]

\* 83: self.interval_start = time.time()
Run83(i) ==
    /\ timers[i].pc = "c83"
    /\ \E t \in now..MaxTime :
         /\ now' = t
         /\ clock' = [clock EXCEPT !.interval_start = t]
    /\ timers' = [timers EXCEPT ![i].pc = "c84"]
    /\ UNCHANGED <<status, srcvars, syncvars, evvars, handles, framevars, obsvars,
                   video, audio, callvars>>

\* 84-85: while self.status != STOPPED: if self.status == RUNNING
\* (89-90 compare and assign nothing; 93: sleep)
Run84(i) ==
    /\ timers[i].pc = "c84"
    /\ timers' = IF clock.status = STOPPED THEN Done(timers, i)
                 ELSE IF clock.status = RUNNING
                 THEN [timers EXCEPT ![i].pc = "c86"]
                 ELSE timers
    /\ UNCHANGED <<now, clock, status, srcvars, syncvars, evvars, handles,
                   framevars, obsvars, video, audio, callvars>>

\* 86: self.current_interval_duration = time.time() - self.interval_start
Run86(i) ==
    /\ timers[i].pc = "c86"
    /\ \E t \in now..MaxTime :
         /\ now' = t
         /\ clock' = [clock EXCEPT
                        !.current_interval_duration = t - clock.interval_start]
    /\ timers' = [timers EXCEPT ![i].pc = "c84"]
    /\ UNCHANGED <<status, srcvars, syncvars, evvars, handles, framevars, obsvars,
                   video, audio, callvars>>

TimerRun(i) == Run83(i) \/ Run84(i) \/ Run86(i)

\* ---- Timer.start, Timer.stop as the video thread runs them (player.py 70-79, 95-98)
\* 73: no timekeeping thread alive
CanStart_Always(c) == c = c
CanStart(c) == ~Alive(timers, c.thread)

\* 74-75: the status the clock gets when start() goes ahead
TimerStart75(c) == [c EXCEPT !.status = RUNNING]

\* ---- Player.__render (player.py 321-357) and __render_videoframe (360-370)
VAt(i, pc) == video[i].pc = pc
VGo(i, pc) == video' = [video EXCEPT ![i].pc = pc]

\* 365-370: the frame visible at clock.time goes to the callback and is kept
\* (the pixel buffer itself is not modelled; the history keeps its time)
RenderVideoframe ==
    /\ current_videoframe' = "frame"
    /\ seen' = Pulled(seen, TimerTime(clock))

\* 327: pre-roll frame
Render327(i) ==
    /\ VAt(i, "v327")
    /\ RenderVideoframe
    /\ VGo(i, "v330")
    /\ UNCHANGED <<now, clock, status, srcvars, syncvars, evvars, handles,
                   current_audioframe, audio_out, timers, audio, callvars>>

\* 330 -> Timer.start 73-75 (or 79: "Clock already running!")
Render330(i) ==
    /\ VAt(i, "v330")
    /\ IF CanStart(clock)
       THEN clock' = TimerStart75(clock) /\ VGo(i, "t76")
       ELSE clock' = clock /\ VGo(i, "v333")
    /\ UNCHANGED <<now, status, srcvars, syncvars, evvars, handles, framevars, obsvars,
                   timers, audio, callvars>>

\* Timer.start 76-77: self.reset(); the new thread becomes alive
Start76(i) ==
    /\ VAt(i, "t76")
    /\ timers' = Append(timers, [pc |-> "c83"])
    /\ clock' = [TimerReset(clock) EXCEPT !.thread = Len(timers) + 1]
    /\ VGo(i, "v333")
    /\ UNCHANGED <<now, status, srcvars, syncvars, evvars, handles, framevars, obsvars,
                   audio, callvars>>

\* 333-341, 349-350: one poll of status, the clock and last_frame_no
\* (107: current_frame raises with no fps; with no new frame 349 writes back
\* the frame number read and the thread sleeps)
Render333(i) ==
    /\ VAt(i, "v333")
    /\ video' = IF ~InPlay(status) THEN [video EXCEPT ![i].pc = "v352"]
                ELSE IF fpsUnset(clock) THEN Crashed(video, i)
                ELSE IF TimerTime(clock) > duration
                THEN [video EXCEPT ![i].pc = "v338"]
                ELSE IF last_frame_no # TimerCurrentFrame(clock)
                THEN [video EXCEPT ![i] = [pc |-> "v343",
                                           cfn |-> TimerCurrentFrame(clock)]]
                ELSE video
    /\ UNCHANGED <<now, clock, status, srcvars, syncvars, evvars, handles,
                   framevars, obsvars, timers, audio, callvars>>

\* 338-339: self.status = EOS; break
Render338(i) ==
    /\ VAt(i, "v338")
    /\ status' = EOS
    /\ VGo(i, "v352")
    /\ UNCHANGED <<now, clock, srcvars, syncvars, evvars, handles, framevars, obsvars,
                   timers, audio, callvars>>

\* 343: self.current_time = self.clock.time
Render343(i) ==
    /\ VAt(i, "v343")
    /\ current_time' = TimerTime(clock)
    /\ seen' = Produced(seen, current_time)
    /\ VGo(i, "v344")
    /\ UNCHANGED <<now, clock, status, srcvars, last_frame_no,
                   next_audio_refresh_t, evvars, handles, framevars, audio_out,
                   timers, audio, callvars>>

\* 344: self.next_audio_refresh_t = self.current_time+self.frame_interval
Render344(i) ==
    /\ VAt(i, "v344")
    /\ IF fpsUnset(clock)
       THEN video' = Crashed(video, i) /\ UNCHANGED next_audio_refresh_t
       ELSE /\ next_audio_refresh_t' = current_time + TimerFrameInterval(clock)
            /\ VGo(i, "v346")
    /\ UNCHANGED <<now, clock, status, srcvars, last_frame_no, current_time,
                   evvars, handles, framevars, obsvars, timers, audio, callvars>>

\* Event.set() on the attribute; with no attribute the thread dies (AttributeError)
SetSignal(i, next) ==
    IF new_audioframe_available = 0
    THEN video' = Crashed(video, i) /\ UNCHANGED events
    ELSE /\ events' = [events EXCEPT ![new_audioframe_available] = TRUE]
         /\ video' = next

\* 346: self.new_audioframe_available.set()
Render346(i) ==
    /\ VAt(i, "v346")
    /\ SetSignal(i, [video EXCEPT ![i].pc = "v347"])
    /\ seen' = IF new_audioframe_available = 0 THEN seen ELSE Signalled(seen)
    /\ UNCHANGED <<now, clock, status, srcvars, syncvars,
                   new_audioframe_available, handles, framevars, audio_out,
                   timers, audio, callvars>>

\* 347: self.__render_videoframe()
Render347(i) ==
    /\ VAt(i, "v347")
    /\ RenderVideoframe
    /\ VGo(i, "v349")
    /\ UNCHANGED <<now, clock, status, srcvars, syncvars, evvars, handles,
                   current_audioframe, audio_out, timers, audio, callvars>>

\* 349-350: self.last_frame_no = current_frame_no; sleep
Render349(i) ==
    /\ VAt(i, "v349")
    /\ last_frame_no' = video[i].cfn
    /\ video' = [video EXCEPT ![i] = [pc |-> "v333", cfn |-> 0]]
    /\ UNCHANGED <<now, clock, status, srcvars, current_time,
                   next_audio_refresh_t, evvars, handles, framevars, obsvars, timers,
                   audio, callvars>>

\* 352: self.clock.stop()
Render352(i) ==
    /\ VAt(i, "v352")
    /\ clock' = TimerStop(clock)
    /\ VGo(i, "v357")
    /\ UNCHANGED <<now, status, srcvars, syncvars, evvars, handles, framevars, obsvars,
                   timers, audio, callvars>>

\* 357: the final self.new_audioframe_available.set(); the thread ends
Render357(i) ==
    /\ VAt(i, "v357")
    /\ SetSignal(i, Done(video, i))
    /\ seen' = Finally(seen, /\ new_audioframe_available # 0
                             /\ ~events[new_audioframe_available])
    /\ UNCHANGED <<now, clock, status, srcvars, syncvars,
                   new_audioframe_available, handles, framevars, audio_out,
                   timers, audio, callvars>>

\* 365-368 raising inside __render_videoframe (the decoder or the video
\* callback fails): __render has no handler, the thread ends there
RenderFails(i) ==
    /\ VAt(i, "v327") \/ VAt(i, "v347")
    /\ video' = Crashed(video, i)
    /\ UNCHANGED <<now, clock, status, srcvars, syncvars, evvars, handles,
                   framevars, obsvars, timers, audio, callvars>>

Render(i) ==
    \/ Render327(i) \/ Render330(i) \/ Start76(i)
    \/ Render333(i) \/ Render338(i)
    \/ Render343(i) \/ Render344(i) \/ Render346(i)
    \/ Render347(i) \/ Render349(i) \/ Render352(i) \/ Render357(i)

\* ---- Player.__audiorender_thread (player.py 372-399)
AAt(i, pc) == audio[i].pc = pc
AGo(i, pc) == audio' = [audio EXCEPT ![i].pc = pc]

\* 374-386: while self.status in [PLAYING,PAUSED]: the window
\* [current_time, next_audio_refresh_t] is pulled from clip.audio (the sample
\* buffer itself is not modelled); without audioformat or clip.audio the
\* thread dies
Audio374(i) ==
    /\ AAt(i, "a374")
    /\ audio' = IF ~InPlay(status) THEN Done(audio, i)
                ELSE IF audioformat = "set" /\ clip.audio /\ ~fpsUnset(clock)
                THEN [audio EXCEPT ![i].pc = "a388"]
                ELSE Crashed(audio, i)
    /\ seen' = IF InPlay(status) /\ audioformat = "set" /\ clip.audio
                  /\ ~fpsUnset(clock)
               THEN Fetched(seen, <<current_time, next_audio_refresh_t>>)
               ELSE seen
    /\ UNCHANGED <<now, clock, status, srcvars, syncvars, evvars, handles,
                   framevars, audio_out, timers, video, callvars>>

\* 388: self.new_audioframe_available.wait(): the Event the attribute names now
\* is the one waited on
Audio388(i) ==
    /\ AAt(i, "a388")
    /\ audio' = [audio EXCEPT ![i] =
                    IF events[new_audioframe_available]
                    THEN [pc |-> "a390", ev |-> 0]
                    ELSE [pc |-> "wait", ev |-> new_audioframe_available]]
    /\ UNCHANGED <<now, clock, status, srcvars, syncvars, evvars, handles,
                   framevars, obsvars, timers, video, callvars>>

\* 388: blocked in wait() until that Event is set
AudioWait(i) ==
    /\ AAt(i, "wait")
    /\ events[audio[i].ev]
    /\ audio' = [audio EXCEPT ![i] = [pc |-> "a390", ev |-> 0]]
    /\ UNCHANGED <<now, clock, status, srcvars, syncvars, evvars, handles,
                   framevars, obsvars, timers, video, callvars>>

\* 390: self.new_audioframe_available.clear()
Audio390(i) ==
    /\ AAt(i, "a390")
    /\ events' = [events EXCEPT ![new_audioframe_available] = FALSE]
    /\ AGo(i, "a394")
    /\ seen' = Cleared(seen)
    /\ UNCHANGED <<now, clock, status, srcvars, syncvars,
                   new_audioframe_available, handles, framevars, audio_out,
                   timers, video, callvars>>

\* 394: if self.status in [PLAYING,PAUSED]
Audio394(i) ==
    /\ AAt(i, "a394")
    /\ AGo(i, IF InPlay(status) THEN "a396" ELSE "a374")
    /\ seen' = IF InPlay(status) THEN seen ELSE Skipped(seen)
    /\ UNCHANGED <<now, clock, status, srcvars, syncvars, evvars, handles,
                   framevars, audio_out, timers, video, callvars>>

\* 395-397: the buffer goes to the callback and is kept; the driver's
\* callback writes it to the sink (test.py 193-194), which raises on a
\* closed sink
Audio396(i) ==
    /\ AAt(i, "a396")
    /\ IF audio_out = "closed"
       THEN /\ audio' = Crashed(audio, i)
            /\ UNCHANGED <<current_audioframe, seen>>
       ELSE /\ current_audioframe' = "samples"
            /\ AGo(i, "a374")
            /\ seen' = Handed(seen)
    /\ UNCHANGED <<now, clock, status, srcvars, syncvars, evvars, handles,
                   current_videoframe, audio_out, timers, video, callvars>>

AudioRender(i) ==
    \/ Audio374(i) \/ Audio388(i) \/ AudioWait(i)
    \/ Audio390(i) \/ Audio394(i) \/ Audio396(i)

\* ---- Player.play (player.py 282-319), run by the caller
\* 286: if self.status == UNINITIALIZED or self.clip is None
Unloaded_StatusOnly == status = UNINITIALIZED
Unloaded == status = UNINITIALIZED \/ clip = NoClip

\* 290: if self.status == EOS
Finished_ClockConstant == status = STOPPED
Finished == status = EOS

\* 286-298: the status checks
Play286 ==
    /\ call = "idle"
    /\ IF Unloaded
       THEN Leave("play", "", "RuntimeError") /\ UNCHANGED left
       ELSE IF Finished
       THEN Leave("play", "", "End of stream has been reached") /\ UNCHANGED left
       ELSE IF InPlay(status)
       THEN Leave("play", "", "Video already started") /\ UNCHANGED left
       ELSE /\ left.play > 0
            /\ left' = [left EXCEPT !.play = @ - 1]
            /\ Enter("play", "", "p301")
    /\ UNCHANGED <<now, clock, status, srcvars, syncvars, evvars, handles,
                   framevars, obsvars, timers, video, audio>>

\* 301: if self.status == READY
Play301 ==
    /\ call = "p301"
    /\ Goto(IF status = READY THEN "p302" ELSE "p304")
    /\ UNCHANGED <<now, clock, status, srcvars, syncvars, evvars, handles,
                   framevars, obsvars, timers, video, audio, left>>

\* 302: self.status = PLAYING
Play302 ==
    /\ call = "p302"
    /\ status' = PLAYING
    /\ Goto("p304")
    /\ UNCHANGED <<now, clock, srcvars, syncvars, evvars, handles, framevars, obsvars,
                   timers, video, audio, left>>

\* 304-306: last_frame_no, current_time, next_audio_refresh_t
Play304 ==
    /\ call = "p304"
    /\ last_frame_no' = 0
    /\ current_time' = TimerTime(clock)
    /\ IF fpsUnset(clock)
       THEN Return("RuntimeError") /\ UNCHANGED next_audio_refresh_t
       ELSE /\ next_audio_refresh_t' = TimerTime(clock) + TimerFrameInterval(clock)
            /\ Goto("p308")
    /\ UNCHANGED <<now, clock, status, srcvars, evvars, handles, framevars, obsvars,
                   timers, video, audio, left>>

\* 308: no render thread yet, or the last one has ended
CanRender == ~Alive(video, renderloop)

\* 308-314: the Event and the audio thread, when audioformat is set
Play308 ==
    /\ call = "p308"
    /\ IF CanRender
       THEN /\ IF audioformat = "set"
               THEN /\ events' = Append(events, FALSE)
                    /\ new_audioframe_available' = Len(events) + 1
                    /\ audio' = Append(audio, [pc |-> "a374", ev |-> 0])
                    /\ audioframe_handler' = Len(audio) + 1
               ELSE UNCHANGED <<evvars, audio, audioframe_handler>>
            /\ Goto("p316")
       ELSE /\ Return("Rendering thread already running!")
            /\ UNCHANGED <<evvars, audio, audioframe_handler>>
    /\ UNCHANGED <<now, clock, status, srcvars, syncvars, renderloop, framevars, obsvars,
                   timers, video, left>>

\* 316-317: the render thread
Play316 ==
    /\ call = "p316"
    /\ video' = Append(video, [pc |-> "v327", cfn |-> 0])
    /\ renderloop' = Len(video) + 1
    /\ Return("ok")
    /\ UNCHANGED <<now, clock, status, srcvars, syncvars, evvars,
                   audioframe_handler, framevars, obsvars, timers, audio, left>>

Play == Play286 \/ Play301 \/ Play302 \/ Play304 \/ Play308 \/ Play316

\* ---- Player.pause (player.py 402-410) with Timer.pause (59-68)
\* 405, 408: if self.status == PAUSED ... elif self.status == PLAYING
Pausable_Else == status # PAUSED
Pausable == status = PLAYING

\* 405, 408: the status checks
Pause405 ==
    /\ call = "idle"
    /\ IF status = PAUSED \/ Pausable
       THEN /\ left.pause > 0
            /\ left' = [left EXCEPT !.pause = @ - 1]
            /\ Enter("pause", "", IF status = PAUSED THEN "q406" ELSE "q409")
       ELSE Leave("pause", "", "ok") /\ UNCHANGED left
    /\ UNCHANGED <<now, clock, status, srcvars, syncvars, evvars, handles,
                   framevars, obsvars, timers, video, audio>>

\* 406: self.status = PLAYING
Pause406 ==
    /\ call = "q406"
    /\ status' = PLAYING
    /\ Goto("t62")
    /\ UNCHANGED <<now, clock, srcvars, syncvars, evvars, handles, framevars, obsvars,
                   timers, video, audio, left>>

\* 409: self.status = PAUSED
Pause409 ==
    /\ call = "q409"
    /\ status' = PAUSED
    /\ Goto("t62")
    /\ UNCHANGED <<now, clock, srcvars, syncvars, evvars, handles, framevars, obsvars,
                   timers, video, audio, left>>

\* Timer.pause 62-63, 66: the branch taken, and self.status = PAUSED
TimerPause62 ==
    /\ call = "t62"
    /\ IF clock.status = RUNNING
       THEN clock' = [clock EXCEPT !.status = PAUSED] /\ Goto("t64")
       ELSE IF clock.status = PAUSED
       THEN clock' = clock /\ Goto("t67")
       ELSE clock' = clock /\ Return("ok")
    /\ UNCHANGED <<now, status, srcvars, syncvars, evvars, handles, framevars, obsvars,
                   timers, video, audio, left>>

\* Timer.pause 64: previous_intervals.append(time.time() - self.interval_start);
\* with no interval_start attribute yet the call raises
TimerPause64 ==
    /\ call = "t64"
    /\ IF clock.interval_start = None
       THEN Return("AttributeError") /\ UNCHANGED <<now, clock>>
       ELSE /\ \E t \in now..MaxTime :
                 /\ now' = t
                 /\ clock' = [clock EXCEPT !.previous_intervals =
                                 Append(@, t - clock.interval_start)]
            /\ Goto("t65")
    /\ UNCHANGED <<status, srcvars, syncvars, evvars, handles, framevars, obsvars,
                   timers, video, audio, left>>

\* Timer.pause 65: self.current_interval_duration = 0.0
TimerPause65 ==
    /\ call = "t65"
    /\ clock' = [clock EXCEPT !.current_interval_duration = 0]
    /\ Return("ok")
    /\ UNCHANGED <<now, status, srcvars, syncvars, evvars, handles, framevars, obsvars,
                   timers, video, audio, left>>

\* Timer.pause 67: self.interval_start = time.time()
TimerPause67 ==
    /\ call = "t67"
    /\ \E t \in now..MaxTime :
         /\ now' = t
         /\ clock' = [clock EXCEPT !.interval_start = t]
    /\ Goto("t68")
    /\ UNCHANGED <<status, srcvars, syncvars, evvars, handles, framevars, obsvars,
                   timers, video, audio, left>>

\* Timer.pause 68: self.status = RUNNING
TimerPause68 ==
    /\ call = "t68"
    /\ clock' = [clock EXCEPT !.status = RUNNING]
    /\ Return("ok")
    /\ UNCHANGED <<now, status, srcvars, syncvars, evvars, handles, framevars, obsvars,
                   timers, video, audio, left>>

Pause == \/ Pause405 \/ Pause406 \/ Pause409
         \/ TimerPause62 \/ TimerPause64 \/ TimerPause65
         \/ TimerPause67 \/ TimerPause68

\* ---- Player.stop (player.py 412-416)
\* 414: self.clock.stop()
Stop414 ==
    /\ call = "idle"
    /\ Enter("stop", "", "s416")
    /\ clock' = TimerStop(clock)
    /\ UNCHANGED <<now, status, srcvars, syncvars, evvars, handles, framevars, obsvars,
                   timers, video, audio, left>>

\* 416: self.status = READY
Stop416 ==
    /\ call = "s416"
    /\ status' = READY
    /\ Return("ok")
    /\ UNCHANGED <<now, clock, srcvars, syncvars, evvars, handles, framevars, obsvars,
                   timers, video, audio, left>>

Stop == Stop414 \/ Stop416

\* ---- Player.load_video (player.py 243-280)
\* 245-246, 277: self.clip after the file check
ClipAfter245_Cleared(path, play_audio) ==
    IF isfile(path) THEN VideoFileClip(path, play_audio) ELSE NoClip
ClipAfter245(path, play_audio) ==
    IF isfile(path) THEN VideoFileClip(path, play_audio) ELSE clip

\* 244-263, 277-280: None or a path; the file check, then clip, audioformat
\* and loaded_file
Load245 ==
    /\ call = "idle"
    /\ left.load > 0
    /\ left' = [left EXCEPT !.load = @ - 1]
    /\ \E path \in Paths \cup {"None"}, play_audio \in BOOLEAN :
         IF path = "None"
         THEN /\ Leave("load_video", path, "False")
              /\ UNCHANGED <<clip, audioformat, loaded_file>>
         ELSE /\ clip' = ClipAfter245(path, play_audio)
              /\ IF isfile(path)
                 THEN /\ audioformat' = IF play_audio /\ clip'.audio THEN "set" ELSE "None"
                      /\ loaded_file' = path
                      /\ Enter("load_video", path, "l267")
                 ELSE /\ Leave("load_video", path, "IOError")
                      /\ UNCHANGED <<audioformat, loaded_file>>
    /\ UNCHANGED <<now, clock, status, duration, fps, syncvars, evvars, handles,
                   framevars, obsvars, timers, video, audio>>

\* 267-268: self.duration, then the clock's validating max_duration setter
Load267 ==
    /\ call = "l267"
    /\ duration' = clip.duration
    /\ IF maxDurationAccepted(clip.duration)
       THEN clock' = [clock EXCEPT !.max_duration = clip.duration] /\ Goto("l270")
       ELSE clock' = clock /\ Return("ValueError")
    /\ UNCHANGED <<now, status, clip, loaded_file, audioformat, fps, syncvars,
                   evvars, handles, framevars, obsvars, timers, video, audio, left>>

\* 270-275: self.fps, then the clock's validating fps setter;
\* self.status = READY; return True
Load270 ==
    /\ call = "l270"
    /\ fps' = clip.fps
    /\ IF fpsAccepted(clip.fps)
       THEN /\ clock' = [clock EXCEPT !.fps = clip.fps]
            /\ status' = READY
            /\ Return("ok")
       ELSE clock' = clock /\ status' = status /\ Return("ValueError")
    /\ UNCHANGED <<now, clip, loaded_file, audioformat, duration, syncvars,
                   evvars, handles, framevars, obsvars, timers, video, audio, left>>

LoadVideo == Load245 \/ Load267 \/ Load270

\* ---- the Timer driven directly (player.clock), player.py 47-157
\* values a caller may hand to the setters: fps in halves of a frame per
\* second (1 is 0.5), max_duration in seconds (0 stands for a value below 1.0)
FpsValues == {None, 1, MinFps, 3}
DurationValues == {None, 0, MinDuration, 2}

\* 125-137: clock.fps = value
ClockSetFps ==
    /\ call = "idle"
    /\ \E value \in FpsValues :
         IF fpsAccepted(value)
         THEN /\ clock' = [clock EXCEPT !.fps = value]
              /\ Leave("clock.fps", ToString(value), "ok")
         ELSE /\ clock' = clock
              /\ Leave("clock.fps", ToString(value), "ValueError")
    /\ UNCHANGED <<now, status, srcvars, syncvars, evvars, handles, framevars, obsvars,
                   timers, video, audio, left>>

\* 145-157: clock.max_duration = value
ClockSetMaxDuration ==
    /\ call = "idle"
    /\ \E value \in DurationValues :
         IF maxDurationAccepted(value)
         THEN /\ clock' = [clock EXCEPT !.max_duration = value]
              /\ Leave("clock.max_duration", ToString(value), "ok")
         ELSE /\ clock' = clock
              /\ Leave("clock.max_duration", ToString(value), "ValueError")
    /\ UNCHANGED <<now, status, srcvars, syncvars, evvars, handles, framevars, obsvars,
                   timers, video, audio, left>>

\* 105-110: clock.current_frame
ClockCurrentFrame ==
    /\ call = "idle"
    /\ Leave("clock.current_frame", "",
             IF fpsUnset(clock) THEN "RuntimeError"
             ELSE ToString(TimerCurrentFrame(clock)))
    /\ UNCHANGED <<now, clock, status, srcvars, syncvars, evvars, handles,
                   framevars, obsvars, timers, video, audio, left>>

\* 112-118: clock.frame_interval
ClockFrameInterval ==
    /\ call = "idle"
    /\ Leave("clock.frame_interval", "",
             IF fpsUnset(clock) THEN "RuntimeError"
             ELSE ToString(TimerFrameInterval(clock)))
    /\ UNCHANGED <<now, clock, status, srcvars, syncvars, evvars, handles,
                   framevars, obsvars, timers, video, audio, left>>

\* 73-75, 79: clock.start(): the check, the Thread object, self.status = RUNNING
ClockStart73 ==
    /\ call = "idle"
    /\ IF CanStart(clock)
       THEN /\ Len(timers) < MaxStarts
            /\ clock' = TimerStart75(clock)
            /\ Enter("clock.start", "", "k76")
       ELSE /\ clock' = clock
            /\ Leave("clock.start", "", "Clock already running!")
    /\ UNCHANGED <<now, status, srcvars, syncvars, evvars, handles, framevars, obsvars,
                   timers, video, audio, left>>

\* 76-77: self.reset(); self.thread.start()
ClockStart76 ==
    /\ call = "k76"
    /\ timers' = Append(timers, [pc |-> "c83"])
    /\ clock' = [TimerReset(clock) EXCEPT !.thread = Len(timers) + 1]
    /\ Return("ok")
    /\ UNCHANGED <<now, status, srcvars, syncvars, evvars, handles, framevars, obsvars,
                   video, audio, left>>

\* 59-68: clock.pause(), continued by TimerPause62 .. TimerPause68
ClockPause ==
    /\ call = "idle"
    /\ left.pause > 0
    /\ left' = [left EXCEPT !.pause = @ - 1]
    /\ Enter("clock.pause", "", "t62")
    /\ UNCHANGED <<now, clock, status, srcvars, syncvars, evvars, handles,
                   framevars, obsvars, timers, video, audio>>

\* 95-98: clock.stop()
ClockStop ==
    /\ call = "idle"
    /\ clock' = TimerStop(clock)
    /\ Leave("clock.stop", "", "ok")
    /\ UNCHANGED <<now, status, srcvars, syncvars, evvars, handles, framevars, obsvars,
                   timers, video, audio, left>>

\* 54-57: clock.reset()
ClockReset ==
    /\ call = "idle"
    /\ clock' = TimerReset(clock)
    /\ Leave("clock.reset", "", "ok")
    /\ UNCHANGED <<now, status, srcvars, syncvars, evvars, handles, framevars, obsvars,
                   timers, video, audio, left>>

\* ---- the program: the caller's calls and the threads they started
Threads ==
    \/ \E i \in DOMAIN timers : TimerRun(i)
    \/ \E i \in DOMAIN video : Render(i)
    \/ \E i \in DOMAIN audio : AudioRender(i)

\* the control calls on a constructed Player
Next == Play \/ Pause \/ Stop \/ Threads

Spec == Init /\ [][Next]_vars

\* a Player whose caller also loads sources
InitLoad ==
    /\ Constructed({"None", "av"})
    /\ audio_out = "none" /\ seen = Unseen
    /\ left = [play |-> MaxPlays, pause |-> 0, load |-> MaxLoads]

NextLoad == LoadVideo \/ Play \/ Stop \/ Threads

SpecLoad == InitLoad /\ [][NextLoad]_vars

\* a Player with audio that is played, stopped and played again
InitReplay ==
    /\ Constructed({"av"})
    /\ audio_out = "none" /\ seen = Unseen
    /\ left = [play |-> MaxReplays, pause |-> 0, load |-> 0]

NextReplay == Play \/ Stop \/ Threads

SpecReplay == InitReplay /\ [][NextReplay]_vars

\* a Timer on its own: the caller works on player.clock directly
InitTimer ==
    /\ Constructed({"None"})
    /\ audio_out = "none" /\ seen = Unseen
    /\ left = [play |-> 0, pause |-> MaxPauses, load |-> 0]

NextTimer ==
    \/ ClockSetFps \/ ClockSetMaxDuration
    \/ ClockCurrentFrame \/ ClockFrameInterval
    \/ ClockStart73 \/ ClockStart76
    \/ ClockPause \/ TimerPause62 \/ TimerPause64 \/ TimerPause65
    \/ TimerPause67 \/ TimerPause68
    \/ ClockStop
    \/ \E i \in DOMAIN timers : TimerRun(i)

SpecTimer == InitTimer /\ [][NextTimer]_vars

\* the same, with the timekeeping thread scheduled fairly
FairTimer ==
    SpecTimer /\ WF_vars(\E i \in DOMAIN timers : TimerRun(i))

\* the Player's control calls, with the timekeeping thread scheduled fairly
FairSpec ==
    Spec /\ WF_vars(\E i \in DOMAIN timers : TimerRun(i))

\* a Timer on its own whose caller also calls reset()
NextReset == NextTimer \/ ClockReset

SpecReset == InitTimer /\ [][NextReset]_vars

\* one observed session of a source two frames long, played and stopped
InitSync ==
    /\ Constructed({"long"})
    /\ audio_out = "none" /\ seen = NoneSeen
    /\ left = [play |-> MaxPlays, pause |-> 0, load |-> 0]

SpecSync == InitSync /\ [][NextReplay]_vars

\* one observed session of the one-frame source, paused and resumed
InitCount ==
    /\ Constructed({"av"})
    /\ audio_out = "none" /\ seen = NoneSeen
    /\ left = [play |-> MaxPlays, pause |-> MaxPauses, load |-> 0]

NextCount == Play \/ Pause \/ Threads

SpecCount == InitCount /\ [][NextCount]_vars

\* a session in which pulling or showing a video frame may fail
InitFail ==
    /\ Constructed({"av"})
    /\ audio_out = "none" /\ seen = Unseen
    /\ left = [play |-> MaxPlays, pause |-> 0, load |-> 0]

NextFail == Play \/ Stop \/ Threads \/ \E i \in DOMAIN video : RenderFails(i)

SpecFail == InitFail /\ [][NextFail]_vars

\* ---- the playback driver, videoPlayer in test.py 201-233
\* 201-204: play() calls player.play() once; 207-224: while the status is
\* PLAYING or PAUSED an input event calls player.stop() or player.pause()
VideoPlayerCall ==
    /\ audio_out = "open"
    /\ \/ call = "idle" /\ left.play > 0 /\ Play
       \/ call = "idle" /\ left.play = 0 /\ InPlay(status) /\ (Pause \/ Stop)
       \/ call # "idle" /\ (Play \/ Pause \/ Stop)

\* 207, 225-228: the loop is left on a status other than PLAYING and PAUSED,
\* and the sink is closed when there is an audioformat
VideoPlayerClose ==
    /\ call = "idle" /\ left.play = 0
    /\ ~InPlay(status)
    /\ audio_out = "open" /\ audioformat = "set"
    /\ audio_out' = "closed"
    /\ UNCHANGED <<now, clock, status, srcvars, syncvars, evvars, handles,
                   framevars, seen, timers, video, audio, callvars>>

InitDriver ==
    /\ Constructed({"av"})
    /\ audio_out = "open" /\ seen = Unseen
    /\ left = [play |-> MaxPlays, pause |-> MaxPauses, load |-> 0]

NextDriver == VideoPlayerCall \/ VideoPlayerClose \/ Threads

SpecDriver == InitDriver /\ [][NextDriver]_vars

\* ======================= the claims =======================
StartedClock(i) == Alive(video, i) /\ video[i].pc \notin {"v327", "v330", "t76"}
Blocked(i) == audio[i].pc = "wait" /\ ~events[audio[i].ev]
Returned(op) == call = "idle" /\ last.op = op
\* the step in which the caller makes a call of op
Calls(op) == call = "idle" /\ last' # last /\ last'.op = op

\* C1: a Player never has more than one live video-pacing thread nor more
\* than one live audio-pacing thread, also when play() follows stop() while
\* the previous session's audio thread has not yet exited.
C1_OneThreadOfEachKind ==
    Cardinality(Live(video)) <= 1 /\ Cardinality(Live(audio)) <= 1

\* C2: play() twice in a row on a Ready player with audio: when the second
\* call is made the first has started its render thread and its audio thread
\* (it returned after line 317, not with "Rendering thread already
\* running!"), and the second call changes neither status nor the threads.
C2_PlayTwiceStartsOnePair ==
    [][(Calls("play") /\ last.op = "play" /\ last.status = READY
            /\ audioformat = "set")
        => /\ last.result = "ok"
           /\ call' = "idle"
           /\ UNCHANGED <<status, video, audio, timers>>]_vars

\* C3: once stop() has returned on a Playing or Paused player, the audio
\* thread is not blocked in wait() on a cleared Event with no render thread
\* left to set it (where, with no further play(), it would stay forever).
C3_StopNeverStrandsAudio ==
    (Returned("stop") /\ InPlay(last.status) /\ Live(video) = {})
        => \A i \in Live(audio) : ~Blocked(i)

\* C4: after play() from Ready on a source with audio, status reaches EOS:
\* so status is never Playing with no render thread alive (the render thread
\* is the only writer of EOS).
C4_PlayingHasRenderThread ==
    (Returned("play") /\ last.status = READY /\ audioformat = "set"
            /\ status = PLAYING)
        => Live(video) # {}

\* C5: once stop() has returned on a Playing or Paused player, status is
\* Ready (until the caller's next call), whatever the render thread does.
C5_StopLeavesReady ==
    (Returned("stop") /\ InPlay(last.status)) => status = READY

\* C6: once the render thread has started the clock and no call is in
\* progress, Player Paused means Clock PAUSED and Player Playing means Clock
\* RUNNING.
C6_PauseLockstep ==
    (call = "idle" /\ \E i \in DOMAIN video : StartedClock(i))
        => /\ status = PAUSED => clock.status = PAUSED
           /\ status = PLAYING => clock.status = RUNNING

\* C7: play() on a player whose status is Uninitialized or whose clip is None
\* raises, starts no thread and leaves status and the Clock as they were.
C7_PlayUnloadedFails ==
    [][(Calls("play") /\ (status = UNINITIALIZED \/ clip = NoClip))
        => /\ call' = "idle"
           /\ last'.result = "RuntimeError"
           /\ UNCHANGED <<status, clock, timers, video, audio>>]_vars

C7_Witness ==
    /\ Returned("play") /\ last.result = "RuntimeError"
    /\ last.status = UNINITIALIZED /\ clip # NoClip

C9_PauseOutsidePlayback ==
    [][(Calls("pause") /\ status \in {UNINITIALIZED, READY, EOS})
        => /\ call' = "idle"
           /\ status' = status
           /\ clock'.status = clock.status
           /\ TimerTime(clock') = TimerTime(clock)
           /\ clock' = clock]_vars

C9_Witness ==
    /\ Returned("pause") /\ last.status = READY /\ status = READY
    /\ video # <<>>

\* C10: load_video with a path that is no existing file raises IOError and
\* leaves status, clip, fps, duration and audioformat as they were.
C10_LoadMissingFile ==
    [][(Calls("load_video") /\ last'.arg \in Paths /\ ~isfile(last'.arg))
        => /\ call' = "idle"
           /\ last'.result = "IOError"
           /\ UNCHANGED <<status, clip, fps, duration, audioformat>>]_vars

C10_Witness ==
    /\ Returned("load_video") /\ last.result = "IOError"
    /\ status = READY /\ clip.file = "av"

\* the step in which the caller returns from a call of op
Returns(op) == call' = "idle" /\ last' # last /\ last'.op = op
\* a render thread that has not yet left its loop (333-350)
InLoop(i) == Alive(video, i) /\ video[i].pc \notin {"v352", "v357"}

\* C11: a load_video call that fails (IOError, or the ValueError of the
\* Clock's validation) returns with clip, loaded_file, audioformat, duration,
\* fps, status and the Clock's fps and max_duration as they were on entry.
C11_NoPartialLoad ==
    [][(Returns("load_video") /\ last'.result # "ok")
        => /\ status' = status
           /\ Snapshot' = last'.before]_vars

\* C12: every successful load_video returns with status Ready and the
\* Clock's accumulated time at zero.
C12_LoadResetsClock ==
    [][(Returns("load_video") /\ last'.result = "ok")
        => /\ status' = READY
           /\ TimerTime(clock') = 0]_vars

\* C13: load_video called while status is Playing or Paused does not replace
\* self.clip while a render thread or an audio thread is still in its loop.
C13_LoadHaltsCycles ==
    [][(InPlay(status) /\ clip' # clip)
        => /\ \A i \in DOMAIN video : ~InLoop(i)
           /\ Live(audio) = {}]_vars

\* C14: a successful load_video leaves audioformat set exactly when the
\* source has an audio track and audio was requested, and a play() that goes
\* ahead (it reaches line 308) starts an audio thread exactly when
\* audioformat is set.
C14_AudioThreadIffAudioformat ==
    [][/\ (Returns("load_video") /\ last'.result = "ok")
            => /\ (audioformat' = "set") <=> clip'.audio
               /\ clip'.audio => Files[last'.arg].audio
       /\ (call = "p308" /\ call' # "p308")
            => ((Len(audio') > Len(audio)) <=> (audioformat = "set"))]_vars

\* C15: for pause() calls on a started clock, Timer.time as any reader sees
\* it never decreases from one moment to the next (no interval is counted
\* twice and then taken back, none is measured from a stale interval_start).
C15_TimeNeverDecreases ==
    [][(/\ clock.status \in {RUNNING, PAUSED}
        /\ clock'.status \in {RUNNING, PAUSED}
        /\ clock.thread # 0 /\ clock'.thread = clock.thread)
        => TimerTime(clock') >= TimerTime(clock)]_vars

\* C16: from the return of the pause() that paused the clock until the next
\* pause()/start()/stop(), Timer.time does not change.
C16_FrozenWhilePaused ==
    [][(/\ Returned("clock.pause") /\ call' = "idle"
        /\ clock.status = PAUSED /\ clock'.status = PAUSED)
        => TimerTime(clock') = TimerTime(clock)]_vars

\* C17: setting Timer.fps or Timer.max_duration to a value below 1.0 raises
\* and leaves the stored value as it was; 1.0 itself and None are stored.
C17_SettersValidate ==
    [][/\ \A v \in FpsValues :
            (Calls("clock.fps") /\ last'.arg = ToString(v))
            => IF v # None /\ v < MinFps
               THEN last'.result = "ValueError" /\ clock' = clock
               ELSE last'.result = "ok" /\ clock'.fps = v
       /\ \A v \in DurationValues :
            (Calls("clock.max_duration") /\ last'.arg = ToString(v))
            => IF v # None /\ v < MinDuration
               THEN last'.result = "ValueError" /\ clock' = clock
               ELSE last'.result = "ok" /\ clock'.max_duration = v]_vars

C17_Witness ==
    /\ Returned("clock.fps") /\ last.result = "ValueError"
    /\ clock.fps = MinFps /\ clock.max_duration = MinDuration

\* C18: Timer.current_frame is floor(fps * time) for every valid fps, and
\* current_frame and frame_interval raise while fps is unset.
C18_CurrentFrameIsFloor ==
    [][/\ Calls("clock.current_frame")
            => IF clock.fps = None
               THEN last'.result = "RuntimeError"
               ELSE \E n \in 0..(MinFps * MaxTime * (MaxPauses + 2)) :
                      /\ n * MinFps <= clock.fps * TimerTime(clock)
                      /\ clock.fps * TimerTime(clock) < (n + 1) * MinFps
                      /\ last'.result = ToString(n)
       /\ Calls("clock.frame_interval")
            => (clock.fps = None <=> last'.result = "RuntimeError")]_vars

C18_Witness ==
    /\ Returned("clock.current_frame") /\ last.result = "1"
    /\ clock.fps = 3 /\ TimerTime(clock) = 1

\* C19: Timer.start() with a timekeeping thread alive changes nothing and
\* starts no thread; otherwise it sets RUNNING, clears the history and
\* starts one thread; at most one timekeeping thread is alive at any time.
C19_StartOnce ==
    [][/\ Calls("clock.start")
            => IF Alive(timers, clock.thread)
               THEN /\ call' = "idle" /\ clock' = clock /\ timers' = timers
                    /\ last'.result = "Clock already running!"
               ELSE clock'.status = RUNNING /\ timers' = timers
       /\ (Returns("clock.start") /\ last'.result = "ok")
            => /\ Len(timers') = Len(timers) + 1
               /\ Alive(timers', Len(timers'))
               /\ clock'.status = RUNNING
               /\ clock'.previous_intervals = <<>>
               /\ clock'.current_interval_duration = 0
       /\ Cardinality(Live(timers')) <= 1]_vars

C19_Witness ==
    /\ Returned("clock.start") /\ last.result = "Clock already running!"
    /\ Cardinality(Live(timers)) = 1 /\ TimerTime(clock) > 0

\* the i-th timekeeping thread has been started and has not ended
Ticking(i) == i \in DOMAIN timers /\ Alive(timers, i)

\* C20: once Timer.stop() has set STOPPED, the timekeeping thread that is
\* alive then eventually observes STOPPED and terminates (no pause() brings
\* the stopped clock back to life before it does).
C20_StopEndsTimekeeping ==
    \A i \in 1..MaxStarts :
        []((Ticking(i) /\ clock.status = STOPPED) => <>(~Ticking(i)))

\* C21: an iteration of the timekeeping loop that finds max_duration set and
\* Timer.time past it (lines 86-90) leaves the clock STOPPED, without any
\* call to stop().
C21_MaxDurationStops ==
    [][\A i \in DOMAIN timers :
         (/\ timers[i].pc = "c86" /\ timers'[i].pc = "c84"
          /\ clock'.max_duration # None
          /\ TimerTime(clock') > clock'.max_duration)
         => clock'.status = STOPPED]_vars

\* C22: from the return of Timer.stop() until the next call, Timer.time
\* reads 0, whatever the timekeeping thread was doing when stop() ran.
C22_StoppedReadsZero ==
    (Returned("clock.stop") /\ clock.status = STOPPED) => TimerTime(clock) = 0

\* C23: a Timer is constructed PAUSED with time 0; pause() on a RUNNING clock
\* returns with the clock PAUSED, the live interval appended to
\* previous_intervals and current_interval_duration 0; pause() on a PAUSED
\* clock returns with the clock RUNNING, a new interval_start and the history
\* untouched; reset() clears the accumulated time and keeps the status.
C23_PauseToggles ==
    /\ clock.status = PAUSED /\ TimerTime(clock) = 0
    /\ [][/\ (call = "t62" /\ call' = "t64") => clock'.status = PAUSED
          /\ (call = "t64" /\ call' # "t64")
               => /\ call' = "t65"
                  /\ \E d \in 0..MaxTime :
                       /\ d = now' - clock.interval_start
                       /\ clock'.previous_intervals =
                              Append(clock.previous_intervals, d)
          /\ (call = "t67" /\ call' = "t68")
               => /\ clock'.interval_start = now'
                  /\ clock'.previous_intervals = clock.previous_intervals
          /\ Returns("clock.pause")
               => /\ last'.result = "ok"
                  /\ call = "t65" => /\ clock'.status = PAUSED
                                     /\ clock'.current_interval_duration = 0
                  /\ call = "t68" => /\ clock'.status = RUNNING
                                     /\ clock'.previous_intervals =
                                            clock.previous_intervals
          /\ Calls("clock.reset")
               => /\ TimerTime(clock') = 0
                  /\ clock'.status = clock.status]_vars

\* C24: when pulling or showing a video frame fails inside the video thread
\* (pre-roll or loop), the thread still sets the new-frame signal and takes
\* the status out of PLAYING/PAUSED before it ends: no audio thread stays
\* blocked in wait() with the status still PLAYING or PAUSED.
C24_FailureReleasesAudio ==
    (\E i \in DOMAIN video : video[i].pc = "crashed")
    => ~(InPlay(status) /\ \E a \in Live(audio) : Blocked(a))

\* C25: in every session the pre-roll frame (pulled at clock time 0) is
\* handed to the video callback before the Clock becomes RUNNING, and the
\* loop body is entered only after clock.start() has been called.
C25_PrerollBeforeClock ==
    /\ [](\A i \in DOMAIN video : VAt(i, "v327") => clock.status # RUNNING)
    /\ [][\A i \in DOMAIN video :
            /\ (VAt(i, "v327") /\ video'[i].pc = "v330")
                 => current_videoframe' = "frame" /\ seen'.pulled = 0
            /\ (~StartedClock(i) /\ video'[i].pc = "v333")
                 => video[i].pc \in {"v330", "t76"}]_vars

\* C26: the number of buffers handed to the audio callback never exceeds
\* the number of new-frame signals the video loop has set at line 346 (the
\* pre-roll and the final signal of line 357 deliver no buffer).
C26_BuffersWithinSignals == seen.buffers <= seen.signals

\* the step in which the i-th audio thread hands its buffer to the callback
HandsBuffer(i) == AAt(i, "a396") /\ audio'[i].pc = "a374"

\* C29: the audio thread hands a buffer to the callback (and replaces
\* current_audioframe) only in an iteration in which, after wait() returned
\* and the signal was cleared, it saw the status PLAYING or PAUSED; the
\* wake-up caused by the video thread's final signal hands over no buffer.
C29_NoBufferOnShutdownSignal ==
    [][/\ (seen'.buffers # seen.buffers \/ current_audioframe' # current_audioframe)
            => \E i \in DOMAIN audio : HandsBuffer(i)
       /\ \A i \in DOMAIN audio :
            /\ (audio[i].pc # "a396" /\ audio'[i].pc = "a396")
                 => AAt(i, "a394") /\ InPlay(status)
            /\ HandsBuffer(i) => seen.final # "woken"]_vars

\* C27: at the moment a buffer is handed to the audio callback, the window
\* it was pulled for is the window of the video frame produced last, or of
\* the frame before it (it lags the latest frame by at most one frame).
C27_BufferMatchesLatestFrame ==
    [][\A i \in DOMAIN audio :
         HandsBuffer(i)
         => seen.window[1] \in {current_time, seen.earlier}]_vars

\* C28: within one session the clock times for which the loop pulls
\* successive video frames (line 365, called from 347) never decrease,
\* whatever pause() and stop() do in between.
C28_FrameTimesNeverDecrease ==
    [][\A i \in DOMAIN video :
         (VAt(i, "v347") /\ video'[i].pc = "v349")
         => seen'.pulled >= seen.pulled]_vars

\* C30: the playback driver closes its audio sink only after the audio
\* thread has left its loop: the callback never writes to the sink after
\* audio_out.close().
C30_NoWriteAfterClose ==
    [][\A i \in DOMAIN audio :
         (AAt(i, "a396") /\ audio'[i] # audio[i]) => audio_out # "closed"]_vars

\* C31: for a source loaded without audioformat, play() creates no Event
\* and no audio thread, and the video thread does not depend on the Event:
\* it never dies on it, and goes on producing frames until EOS.
C31_VideoOnlyPlays ==
    loaded_file = "mute"
    => /\ audioformat = "None"
       /\ events = <<>> /\ new_audioframe_available = 0 /\ audio = <<>>
       /\ \A i \in DOMAIN video : video[i].pc # "crashed"

\* C32: once a play() that found the status READY has returned and the
\* status is PLAYING, a video thread is alive in or before its loop, and
\* once that thread has called clock.start() the Clock is RUNNING with a
\* live timekeeping thread, also when play() follows stop() closely.
C32_PlayRestartsThreads ==
    (Returned("play") /\ last.status = READY /\ status = PLAYING)
    => \E i \in DOMAIN video :
         /\ InLoop(i)
         /\ StartedClock(i)
              => clock.status = RUNNING /\ Alive(timers, clock.thread)

\* C33: status READY implies that a source is loaded (clip is not None),
\* whatever control calls are made, stop() on an uninitialized Player
\* included.
C33_ReadyMeansLoaded == status = READY => clip # NoClip

====
